---------------------------- MODULE Spec2Model ----------------------------
(***************************************************************************)
(* A model of package bulk (insert.go): Insert.Exec splits the rows of a   *)
(* bulk INSERT into batches that fit the bind-parameter ceiling, prepares  *)
(* a statement per batch size, executes the batches in order and folds the *)
(* results into Insert.result.                                             *)
(*                                                                         *)
(* The database (sql.DB / sql.Stmt) is the environment: every Prepare and  *)
(* every Stmt.Exec may succeed or fail, and a successful Stmt.Exec reports *)
(* any rows-affected count.  The variable log records the calls Exec makes *)
(* on the database during the current call, in order.                      *)
(*                                                                         *)
(* MaxBindVars is the constant 65535 in the source; here the ceiling is    *)
(* the variable maxBindVars, fixed in Init to a small value, so that the   *)
(* batching arithmetic is exercised with a handful of rows.                *)
(***************************************************************************)
EXTENDS Integers, Sequences, FiniteSets

\* ------------------------------------------------------------- bounds
MaxRows == 5
MaxCols == 2
MaxCeiling == 6
MaxCalls == 2
\* width of the model's int (Go's int is 64 bits wide; the counter of the
\* rebalancing loop wraps around at this width)
IntBits == 5

CastNames == {"", "int"}
\* the rows-affected counts a successful Stmt.Exec may report
AffectedVals == {0, 1}
\* the errors Prepare and Stmt.Exec may report
ErrVals == {"bad sql", "conn lost"}
NoErr == "nil"
NoStmt == 0

VARIABLES
    Casts,        \* Insert.Casts
    maxBindVars,  \* the bind-parameter ceiling (MaxBindVars)
    stmt,         \* Insert.stmt: the id of the statement last prepared, NoStmt for nil
    result,       \* Insert.result: the rows-affected accumulated by add
    rows,         \* the argument of the current Exec call
    batches, batchSize, leftovers, i,   \* locals of Exec
    pc,           \* where the current Exec call is
    retResult, retErr,                  \* what the call returned
    calls,        \* number of Exec calls begun on this Insert
    open,         \* database side: ids of the statements prepared and not closed
    log           \* database side: the calls of the current Exec, in order

vars == <<Casts, maxBindVars, stmt, result, rows, batches, batchSize, leftovers,
          i, pc, retResult, retErr, calls, open, log>>

\* ------------------------------------------------------- pure helpers
\* a value of Go's int after an arithmetic operation (two's complement wrap)
WrapInt(x) == ((x + 2 ^ (IntBits - 1)) % (2 ^ IntBits)) - 2 ^ (IntBits - 1)

SeqsUpTo(S, n) == UNION {[1..k -> S] : k \in 1..n}

\* the rows of a call: n rows of len(Casts) opaque values; value j of row r
\* is tagged <<r, j>> so that every value of the input is distinguishable
MakeRows(n, c) == [r \in 1..n |-> [j \in 1..c |-> <<r, j>>]]

RECURSIVE Flatten(_)
\* for _, row := range rs { for _, arg := range row { args = append(args, arg) } }
Flatten(rs) == IF rs = <<>> THEN <<>> ELSE Head(rs) \o Flatten(Tail(rs))

\* rows[lo:hi] of a Go slice (0-based, hi exclusive)
Slice(s, lo, hi) == SubSeq(s, lo + 1, hi)

\* ------------------------------------------------------ PlaceholderBuilder
\* mutant of placeCount: the row index is not scaled by the column count
placeCountNoStride(ri, cj, c) == ri + cj + 1

\* placeCount := i*len(s.Casts) + j + 1   (i, j 0-based)
placeCount(ri, cj, c) == ri * c + cj + 1

\* mutant of Placeholder: the cast is tested the wrong way round, so that a
\* column with a cast is rendered plain and one without gets an empty suffix
PlaceholderInverted(n, cast) ==
    IF cast # "" THEN [param |-> n, suffix |-> <<>>]
                 ELSE [param |-> n, suffix |-> <<"::", cast>>]

\* fmt.Sprintf("$%d", n) or fmt.Sprintf("$%d::%s", n, cast): the rendered
\* placeholder is the parameter number and the cast suffix it carries
Placeholder(n, cast) ==
    IF cast = "" THEN [param |-> n, suffix |-> <<>>]
                 ELSE [param |-> n, suffix |-> <<"::", cast>>]

\* one parenthesised group per row, one placeholder per column
valuePlaceholders(casts, count) ==
    [r \in 1..count |->
        [j \in 1..Len(casts) |->
            Placeholder(placeCount(r - 1, j - 1, Len(casts)), casts[j])]]

\* the statement text prepare hands to Prepare: the SQL template with its
\* <values> marker replaced; the template is the same for every statement of
\* an Insert, so a statement is identified by its value list
prepare(casts, count) == valuePlaceholders(casts, count)

\* ------------------------------------------------------------ BatchPlanner
\* batches := len(s.Casts) * len(rows) / MaxBindVars
InitialBatches(c, n, m) == (c * n) \div m

\* mutant of InitialBatchSize: the rows are divided among the regular batches alone
BatchSizeOverBatches(n, b) == n \div b

\* batchSize := len(rows) / (batches + 1)
InitialBatchSize(n, b) == n \div (b + 1)

\* mutant of InitialLeftovers: the final batch is counted among the regular ones
LeftoversAfterAllBatches(n, bs, b) == n - bs * (b + 1)

\* leftovers = len(rows) - batchSize*batches
InitialLeftovers(n, bs, b) == n - bs * b

\* mutant of LoopCond: the loop also runs when the final batch is just full
LoopCondInclusive(l, bs) == l >= bs

\* mutant of LoopCond: the loop stops one row early
LoopCondOffByOne(l, bs) == l > bs + 1

\* for leftovers > batchSize
LoopCond(l, bs) == l > bs

\* mutant of MoreRegular: the last regular batch is skipped
MoreRegularOffByOne(k, b) == k < b - 1

\* for i := 0; i < batches; i++
MoreRegular(k, b) == k < b

\* mutant of RegularRows: the slice ends one row early
RegularRowsOneShort(rs, k, bs) == Slice(rs, k * bs, k * bs + bs - 1)

\* rows[i*batchSize : i*batchSize+batchSize]
RegularRows(rs, k, bs) == Slice(rs, k * bs, k * bs + bs)

\* mutant of FinalRows: the final batch is taken from the front, rows[:leftovers]
FinalRowsFromStart(rs, l) == Slice(rs, 0, l)

\* rows[len(rows)-leftovers:]
FinalRows(rs, l) == Slice(rs, Len(rs) - l, Len(rs))

\* ---------------------------------------------------------- ResultAggregator
\* result.add: rows-affected accumulates by sum
add(total, affected) == total + affected

\* ------------------------------------------------------------ database side
PrepareEvent(id, count, values, ok) ==
    [op |-> "prepare", stmt |-> id, count |-> count, values |-> values,
     args |-> <<>>, ok |-> ok, affected |-> 0, err |-> NoErr]

ExecEvent(id, args, ok, affected) ==
    [op |-> "exec", stmt |-> id, count |-> 0, values |-> <<>>,
     args |-> args, ok |-> ok, affected |-> affected, err |-> NoErr]

CloseEvent(id) ==
    [op |-> "close", stmt |-> id, count |-> 0, values |-> <<>>,
     args |-> <<>>, ok |-> TRUE, affected |-> 0, err |-> NoErr]

\* a call of the database that failed, with the error it reported
Failed(ev, e) == [ev EXCEPT !.err = e]

\* mutant of returnErr: the error is dropped (the err of the closure shadows
\* the err of Exec and is not handed on)
returnNil(e) == NoErr

\* return s.result, err: the error goes to the caller as the database gave it
returnErr(e) == e

\* mutant of DeferredClose: the statement is never closed
NoClose(o, id) == o

\* defer s.stmt.Close(): the statement leaves the set of open statements
DeferredClose(o, id) == o \ {id}

\* --------------------------------------------------------------------- Init
Init ==
    /\ Casts \in SeqsUpTo(CastNames, MaxCols)
    /\ maxBindVars \in 1..MaxCeiling
    /\ stmt = NoStmt
    /\ result = 0
    /\ rows = <<>>
    /\ batches = 0 /\ batchSize = 0 /\ leftovers = 0 /\ i = 0
    /\ pc = "idle"
    /\ retResult = 0 /\ retErr = NoErr
    /\ calls = 0
    /\ open = {}
    /\ log = <<>>

\* ------------------------------------------------------------------ actions
\* Exec is entered with n rows: lines 43-46 and 75-77
ExecBegin(n) ==
    /\ pc \in {"idle", "returned"}
    /\ calls < MaxCalls
    /\ calls' = calls + 1
    /\ rows' = MakeRows(n, Len(Casts))
    /\ log' = <<>>
    /\ i' = 0
    /\ retResult' = 0 /\ retErr' = NoErr
    /\ LET b == InitialBatches(Len(Casts), n, maxBindVars)
           bs == InitialBatchSize(n, b)
       IN  /\ batches' = b
           /\ IF b > 0
              THEN /\ batchSize' = bs
                   /\ leftovers' = InitialLeftovers(n, bs, b)
                   /\ pc' = "rebalance"
              ELSE /\ batchSize' = 0
                   /\ leftovers' = n
                   /\ pc' = "prepareFinal"
    /\ UNCHANGED <<Casts, maxBindVars, stmt, result, open>>

\* one iteration of the rebalancing loop: lines 47-50
RebalanceStep ==
    /\ pc = "rebalance"
    /\ LoopCond(leftovers, batchSize)
    /\ batches' = WrapInt(batches + 1)
    /\ leftovers' = leftovers - batchSize
    /\ UNCHANGED <<Casts, maxBindVars, stmt, result, rows, batchSize, i, pc,
                   retResult, retErr, calls, open, log>>

\* the loop exits: line 47
RebalanceDone ==
    /\ pc = "rebalance"
    /\ ~LoopCond(leftovers, batchSize)
    /\ pc' = "prepareRegular"
    /\ UNCHANGED <<Casts, maxBindVars, stmt, result, rows, batches, batchSize,
                   leftovers, i, retResult, retErr, calls, open, log>>

\* s.prepare(batchSize) succeeds: lines 52-56
PrepareRegularOk ==
    /\ pc = "prepareRegular"
    /\ LET id == Len(log) + 1
       IN  /\ stmt' = id
           /\ open' = open \cup {id}
           /\ log' = Append(log, PrepareEvent(id, batchSize,
                                              prepare(Casts, batchSize), TRUE))
    /\ i' = 0
    /\ pc' = "regular"
    /\ UNCHANGED <<Casts, maxBindVars, result, rows, batches, batchSize,
                   leftovers, retResult, retErr, calls>>

\* s.prepare(batchSize) fails: lines 52-55, 72-74
PrepareRegularFail(e) ==
    /\ pc = "prepareRegular"
    /\ stmt' = NoStmt
    /\ log' = Append(log, Failed(PrepareEvent(NoStmt, batchSize,
                                       prepare(Casts, batchSize), FALSE), e))
    /\ retResult' = result /\ retErr' = returnErr(e)
    /\ pc' = "returned"
    /\ UNCHANGED <<Casts, maxBindVars, result, rows, batches, batchSize,
                   leftovers, i, calls, open>>

\* regular batch i executes and succeeds: lines 57-69
RegularExecOk(n) ==
    /\ pc = "regular"
    /\ MoreRegular(i, batches)
    /\ log' = Append(log, ExecEvent(stmt,
                  Flatten(RegularRows(rows, i, batchSize)), TRUE, n))
    /\ result' = add(result, n)
    /\ i' = i + 1
    /\ UNCHANGED <<Casts, maxBindVars, stmt, rows, batches, batchSize,
                   leftovers, pc, retResult, retErr, calls, open>>

\* regular batch i executes and fails: lines 64-67, the deferred Close of
\* line 56, and the return of lines 72-74
RegularExecFail(e) ==
    /\ pc = "regular"
    /\ MoreRegular(i, batches)
    /\ log' = log \o <<Failed(ExecEvent(stmt,
                  Flatten(RegularRows(rows, i, batchSize)), FALSE, 0), e),
                  CloseEvent(stmt)>>
    /\ open' = DeferredClose(open, stmt)
    /\ retResult' = result /\ retErr' = returnErr(e)
    /\ pc' = "returned"
    /\ UNCHANGED <<Casts, maxBindVars, stmt, result, rows, batches, batchSize,
                   leftovers, i, calls>>

\* the regular batches are done: line 70 and the deferred Close of line 56
RegularDone ==
    /\ pc = "regular"
    /\ ~MoreRegular(i, batches)
    /\ log' = Append(log, CloseEvent(stmt))
    /\ open' = DeferredClose(open, stmt)
    /\ pc' = "prepareFinal"
    /\ UNCHANGED <<Casts, maxBindVars, stmt, result, rows, batches, batchSize,
                   leftovers, i, retResult, retErr, calls>>

\* s.prepare(leftovers) succeeds: lines 79-83
PrepareFinalOk ==
    /\ pc = "prepareFinal"
    /\ LET id == Len(log) + 1
       IN  /\ stmt' = id
           /\ open' = open \cup {id}
           /\ log' = Append(log, PrepareEvent(id, leftovers,
                                              prepare(Casts, leftovers), TRUE))
    /\ pc' = "final"
    /\ UNCHANGED <<Casts, maxBindVars, result, rows, batches, batchSize,
                   leftovers, i, retResult, retErr, calls>>

\* s.prepare(leftovers) fails: lines 79-82
PrepareFinalFail(e) ==
    /\ pc = "prepareFinal"
    /\ stmt' = NoStmt
    /\ log' = Append(log, Failed(PrepareEvent(NoStmt, leftovers,
                                       prepare(Casts, leftovers), FALSE), e))
    /\ retResult' = result /\ retErr' = returnErr(e)
    /\ pc' = "returned"
    /\ UNCHANGED <<Casts, maxBindVars, result, rows, batches, batchSize,
                   leftovers, i, calls, open>>

\* the final batch executes and succeeds: lines 84-95, with the deferred
\* Close of line 83
FinalExecOk(n) ==
    /\ pc = "final"
    /\ log' = log \o <<ExecEvent(stmt,
                  Flatten(FinalRows(rows, leftovers)), TRUE, n),
                  CloseEvent(stmt)>>
    /\ open' = DeferredClose(open, stmt)
    /\ result' = add(result, n)
    /\ retResult' = add(result, n) /\ retErr' = NoErr
    /\ pc' = "returned"
    /\ UNCHANGED <<Casts, maxBindVars, stmt, rows, batches, batchSize,
                   leftovers, i, calls>>

\* the final batch executes and fails: lines 84-93, with the deferred Close
\* of line 83
FinalExecFail(e) ==
    /\ pc = "final"
    /\ log' = log \o <<Failed(ExecEvent(stmt,
                  Flatten(FinalRows(rows, leftovers)), FALSE, 0), e),
                  CloseEvent(stmt)>>
    /\ open' = DeferredClose(open, stmt)
    /\ retResult' = result /\ retErr' = returnErr(e)
    /\ pc' = "returned"
    /\ UNCHANGED <<Casts, maxBindVars, stmt, result, rows, batches, batchSize,
                   leftovers, i, calls>>

\* the steps Exec takes once it has been entered
ExecStep ==
    \/ RebalanceStep
    \/ RebalanceDone
    \/ PrepareRegularOk
    \/ \E e \in ErrVals : PrepareRegularFail(e)
    \/ \E n \in AffectedVals : RegularExecOk(n)
    \/ \E e \in ErrVals : RegularExecFail(e)
    \/ RegularDone
    \/ PrepareFinalOk
    \/ \E e \in ErrVals : PrepareFinalFail(e)
    \/ \E n \in AffectedVals : FinalExecOk(n)
    \/ \E e \in ErrVals : FinalExecFail(e)

Next ==
    \/ \E n \in 0..MaxRows : ExecBegin(n)
    \/ ExecStep

Spec == Init /\ [][Next]_vars

\* every call of the database returns, and Exec runs on: a step of Exec
\* that can be taken is taken
FairSpec == Spec /\ WF_vars(ExecStep)

\* the scenario of three columns, ten rows and a ceiling of twelve: an
\* Insert with casts "", int, text whose Exec is given ten rows
ScenarioCasts == <<"", "int", "text">>

ScenarioInit ==
    /\ Casts = ScenarioCasts
    /\ maxBindVars = 12
    /\ stmt = NoStmt
    /\ result = 0
    /\ rows = <<>>
    /\ batches = 0 /\ batchSize = 0 /\ leftovers = 0 /\ i = 0
    /\ pc = "idle"
    /\ retResult = 0 /\ retErr = NoErr
    /\ calls = 0
    /\ open = {}
    /\ log = <<>>

ScenarioNext ==
    \/ ExecBegin(10)
    \/ ExecStep

ScenarioSpec == ScenarioInit /\ [][ScenarioNext]_vars

\* ----------------------------------------------------- reading the log
Prepares == SelectSeq(log, LAMBDA ev : ev.op = "prepare")
Execs == SelectSeq(log, LAMBDA ev : ev.op = "exec")
OkExecs == SelectSeq(log, LAMBDA ev : ev.op = "exec" /\ ev.ok)

RECURSIVE SumAffected(_)
SumAffected(evs) ==
    IF evs = <<>> THEN 0 ELSE Head(evs).affected + SumAffected(Tail(evs))

RECURSIVE ConcatArgs(_)
ConcatArgs(evs) ==
    IF evs = <<>> THEN <<>> ELSE Head(evs).args \o ConcatArgs(Tail(evs))

\* the values of input rows lo+1 .. hi (1-based), row by row
RowMajor(lo, hi, c) ==
    [p \in 1..((hi - lo) * c) |-> <<lo + ((p - 1) \div c) + 1, ((p - 1) % c) + 1>>]

\* the number of bind parameters of a statement with the given value list
NumParams(values) == Len(Flatten(values))

Returned == pc = "returned"
ReturnedOk == pc = "returned" /\ retErr = NoErr
ReturnedErr == pc = "returned" /\ retErr # NoErr
\* the plan is fixed: the rebalancing loop has been left
Planned == pc \notin {"idle", "rebalance"}

\* ------------------------------------------------------------------ C1
\* C1: every statement Exec prepares, the shared regular-batch statement and
\* the final leftover statement alike, carries at most maxBindVars bind
\* parameters.
BindVarsWithinCeiling ==
    \A k \in DOMAIN log :
        log[k].op = "prepare" =>
            /\ NumParams(log[k].values) <= maxBindVars
            /\ log[k].count * Len(Casts) <= maxBindVars

\* a call with regular batches has prepared both statements, the regular
\* one one parameter short of the ceiling
WitnessBindVars ==
    /\ ReturnedOk
    /\ batches >= 2
    /\ Len(Prepares) = 2
    /\ NumParams(Prepares[1].values) = maxBindVars - 1
    /\ NumParams(Prepares[2].values) >= 1

\* ------------------------------------------------------------------ C2
\* C2: in a call in which every prepare and execute succeeds, regular batch
\* k passes rows [k*batchSize, (k+1)*batchSize), the final batch passes the
\* last leftovers rows, the batch sizes sum to len(rows) and the argument
\* lists concatenated are the row-major flattening of the input.
BatchesCoverRowsInOrder ==
    ReturnedOk =>
        LET c == Len(Casts)
            n == Len(rows)
        IN  /\ Len(Execs) = batches + 1
            /\ \A k \in 1..batches :
                   Execs[k].args = RowMajor((k - 1) * batchSize, k * batchSize, c)
            /\ Execs[batches + 1].args = RowMajor(n - leftovers, n, c)
            /\ batches * batchSize + leftovers = n
            /\ ConcatArgs(Execs) = RowMajor(0, n, c)
            /\ ConcatArgs(Execs) = Flatten(rows)

\* a successful call with two regular batches of two rows or more, of two
\* columns or more, and a final batch
WitnessCoverRows ==
    /\ ReturnedOk
    /\ batches >= 2 /\ batchSize >= 2 /\ leftovers >= 1
    /\ Len(Casts) >= 2

\* ------------------------------------------------------------------ C3
\* C3: when the database fails at batch k (in its prepare or its execute),
\* Exec returns a result that is exactly the aggregate of batches 1..k-1
\* of the call, and no execute of a later batch is issued.
FailureReturnsPriorAggregate ==
    ReturnedErr =>
        /\ retResult = SumAffected(OkExecs)
        /\ \A k \in DOMAIN log :
               ~log[k].ok => \A m \in (k + 1)..Len(log) : log[m].op = "close"

\* ------------------------------------------------------------------ C4
\* C4: for every row count >= 0, column count >= 1 and ceiling >= 1, the
\* column count at or above the ceiling included, an Exec call that has
\* been entered eventually returns.
ExecEventuallyReturns == (pc \notin {"idle", "returned"}) ~> (pc = "returned")

DocBatchCount ==
    ReturnedOk =>
        Len(Execs) = ((Len(Casts) * Len(rows)) \div maxBindVars) + 1

\* ------------------------------------------------------------------ C7
\* C7: every statement Exec prepares successfully is closed exactly once
\* before Exec returns, on every exit path; none is open when Exec returns
\* and at most one is open at any moment.
StatementsClosedOnReturn ==
    /\ Cardinality(open) <= 1
    /\ pc \in {"idle", "returned"} => open = {}
    /\ Returned =>
           \A k \in DOMAIN log :
               /\ (log[k].op = "prepare" /\ log[k].ok) =>
                      Cardinality({m \in DOMAIN log :
                          log[m].op = "close" /\ log[m].stmt = k}) = 1
               /\ log[k].op = "close" =>
                      /\ log[k].stmt \in 1..(k - 1)
                      /\ log[log[k].stmt].op = "prepare" /\ log[log[k].stmt].ok

\* the final batch's execute failed after regular batches ran: two
\* statements were prepared, and both are closed
WitnessClosedAfterFailure ==
    /\ ReturnedErr
    /\ Len(Prepares) = 2
    /\ Prepares[2].ok
    /\ ~log[Len(log) - 1].ok
    /\ log[Len(log)].op = "close"

\* ------------------------------------------------------------------ C8
\* C8: in every plan Exec executes, all regular batches have the same size
\* batchSize and the final batch is no larger than batchSize.
RegularBatchesEqualFinalSmaller ==
    (Planned /\ batches > 0) =>
        LET c == Len(Casts)
        IN  /\ leftovers <= batchSize
            /\ \A k \in DOMAIN log :
                   /\ (log[k].op = "exec" /\ log[k].stmt = 1) =>
                          Len(log[k].args) = batchSize * c
                   /\ (log[k].op = "exec" /\ log[k].stmt # 1) =>
                          Len(log[k].args) <= batchSize * c
                   /\ log[k].op = "prepare" => log[k].count <= batchSize

\* a successful call, rebalanced, whose final batch is smaller than its
\* regular batches
WitnessSmallerFinal ==
    /\ ReturnedOk
    /\ batches >= 2
    /\ batches > (Len(Casts) * Len(rows)) \div maxBindVars
    /\ batchSize >= 2
    /\ Len(Execs[batches + 1].args) < Len(Execs[1].args)

\* ------------------------------------------------------------------ C9
\* C9: the rows-affected of the result Exec returns is the sum of the
\* rows-affected reported by the batches executed in that call.
ResultIsSumOfBatches ==
    ReturnedOk => retResult = SumAffected(OkExecs)

\* ------------------------------------------------------------------ C10
\* C10: the statement prepared for a batch of N rows of C columns carries
\* the parameter numbers 1..N*C, without gap or duplicate, in row-major
\* order (row i, column j: i*C + j + 1), whatever the batch's offset in the
\* input.
PlaceholdersNumberedFromOne ==
    \A k \in DOMAIN log :
        log[k].op = "prepare" =>
            LET c == Len(Casts)
                flat == Flatten(log[k].values)
            IN  /\ Len(log[k].values) = log[k].count
                /\ \A r \in 1..log[k].count : Len(log[k].values[r]) = c
                /\ Len(flat) = log[k].count * c
                /\ \A p \in 1..Len(flat) : flat[p].param = p
                /\ \A r \in 1..log[k].count : \A j \in 1..c :
                       log[k].values[r][j].param = (r - 1) * c + (j - 1) + 1

\* the final statement of a call with regular batches, for two rows or more
\* of two columns or more: its batch starts at a non-zero offset
WitnessNumberingRestarts ==
    /\ batches > 0
    /\ Len(Casts) >= 2
    /\ Len(Prepares) = 2
    /\ Prepares[2].count >= 2
    /\ Flatten(Prepares[2].values)[1].param = 1

\* ------------------------------------------------------------------ C11
\* C11: Exec returns a nil error exactly when every prepare and execute it
\* issued succeeded; otherwise it returns the first error the database
\* reported, unchanged, and the failed step is not tried again.
ErrorIsFirstFailure ==
    Returned =>
        LET failures == {k \in DOMAIN log : ~log[k].ok}
        IN  /\ (retErr = NoErr) <=> (failures = {})
            /\ Cardinality(failures) <= 1
            /\ \A k \in failures :
                   /\ retErr = log[k].err
                   /\ log[k].err \in ErrVals
                   /\ \A m \in (k + 1)..Len(log) : log[m].op = "close"
            /\ \A k \in DOMAIN log : log[k].ok => log[k].err = NoErr

\* a regular batch's execute failed after an earlier batch had succeeded
WitnessFirstFailure ==
    /\ ReturnedErr
    /\ Len(OkExecs) >= 1
    /\ Len(Execs) = Len(OkExecs) + 1
    /\ Len(Prepares) = 1
    /\ retErr = "conn lost"

\* ------------------------------------------------------------------ C12
\* C12: with zero input rows Exec plans a single empty batch: it prepares
\* exactly one statement, with an empty value list, executes it exactly once
\* with an empty argument list and, when the database succeeds and reports
\* zero rows, returns a result with zero rows affected and no error.
ZeroRowsSingleEmptyBatch ==
    (pc # "idle" /\ Len(rows) = 0) =>
        /\ batches = 0 /\ leftovers = 0
        /\ pc \notin {"rebalance", "prepareRegular", "regular"}
        /\ Len(Prepares) <= 1 /\ Len(Execs) <= 1
        /\ \A k \in DOMAIN log :
               /\ log[k].op = "prepare" => log[k].values = <<>>
               /\ log[k].op = "exec" => log[k].args = <<>>
        /\ ReturnedOk => Len(Prepares) = 1 /\ Len(Execs) = 1
        /\ (ReturnedOk /\ SumAffected(Execs) = 0) => retResult = 0

\* ------------------------------------------------------------------ C13
\* C13: with 3 columns, 10 rows and a ceiling of 12 the rebalancing loop
\* iterates exactly once, from batches=2, leftovers=4 to batches=3,
\* leftovers=1 with batchSize=3, and Exec executes three batches of 3 rows
\* followed by one batch of 1 row: four executions, sizes summing to 10.
ScenarioPlan ==
    /\ pc = "rebalance" =>
           /\ batchSize = 3
           /\ \/ batches = 2 /\ leftovers = 4
              \/ batches = 3 /\ leftovers = 1
    /\ Planned => batches = 3 /\ batchSize = 3 /\ leftovers = 1
    /\ \A k \in 1..Len(Execs) :
           Len(Execs[k].args) = (IF k <= 3 THEN 3 ELSE 1) * 3
    /\ Len(Execs) <= 4
    /\ ReturnedOk =>
           /\ Len(Execs) = 4
           /\ Len(ConcatArgs(Execs)) = 10 * 3

\* the scenario ran to the end: four executions
WitnessScenarioPlan ==
    /\ ReturnedOk
    /\ Len(rows) = 10 /\ Len(Casts) = 3 /\ maxBindVars = 12
    /\ Len(Execs) = 4
    /\ Len(Execs[4].args) = 3

\* ------------------------------------------------------------------ C14
\* C14: in every placeholder group of every statement, column j is rendered
\* with the suffix ::cast, cast being Casts[j], exactly when Casts[j] is not
\* empty, and as the plain parameter exactly when Casts[j] is empty.
CastSuffixIffCastGiven ==
    \A k \in DOMAIN log :
        log[k].op = "prepare" =>
            \A r \in DOMAIN log[k].values :
                /\ DOMAIN log[k].values[r] = DOMAIN Casts
                /\ \A j \in DOMAIN Casts :
                       LET ph == log[k].values[r][j]
                       IN  /\ (Casts[j] # "") <=> (ph.suffix # <<>>)
                           /\ (Casts[j] # "") => ph.suffix = <<"::", Casts[j]>>
                           /\ (Casts[j] = "") => ph.suffix = <<>>

\* a statement of two rows or more whose columns are one plain and one cast
WitnessCastSuffix ==
    /\ Len(Prepares) >= 1
    /\ Len(Prepares[1].values) >= 2
    /\ \E j1, j2 \in DOMAIN Casts :
           /\ Casts[j1] = "" /\ Casts[j2] = "int"
           /\ Prepares[1].values[2][j1].suffix = <<>>
           /\ Prepares[1].values[2][j2].suffix = <<"::", "int">>

\* ------------------------------------------------------------------ C15
\* C15: every row having len(Casts) values, each execute passes as many
\* arguments as the statement it runs on has placeholders: batchSize *
\* len(Casts) for a regular batch on the shared statement prepared with
\* batchSize rows, leftovers * len(Casts) for the final statement prepared
\* with leftovers rows.
ArgsMatchPlaceholders ==
    /\ \A r \in DOMAIN rows : Len(rows[r]) = Len(Casts)
    /\ \A k \in DOMAIN log :
           log[k].op = "exec" =>
               LET st == log[log[k].stmt]
                   regular == batches > 0 /\ log[k].stmt = 1
               IN  /\ st.op = "prepare"
                   /\ Len(log[k].args) = NumParams(st.values)
                   /\ st.count = (IF regular THEN batchSize ELSE leftovers)
                   /\ Len(log[k].args) =
                          (IF regular THEN batchSize ELSE leftovers) * Len(Casts)

\* a call of two columns or more that executed a regular batch of two rows
\* or more on the shared statement and the final batch on its own
WitnessArgsMatch ==
    /\ ReturnedOk
    /\ batches >= 1 /\ batchSize >= 2
    /\ Len(Casts) >= 2
    /\ Execs[1].stmt # Execs[Len(Execs)].stmt
    /\ Len(Execs[1].args) = batchSize * Len(Casts)
    /\ Len(Execs[Len(Execs)].args) = leftovers * Len(Casts)

\* ------------------------------------------------------------------ C16
\* C16: whenever planning completes, the final batch is empty only if the
\* input has no rows; with regular batches the loop is left with
\* 1 <= leftovers <= batchSize, so no empty statement is prepared or
\* executed after regular batches.
FinalBatchEmptyOnlyWithoutRows ==
    Planned =>
        /\ leftovers = 0 => Len(rows) = 0
        /\ batches > 0 =>
               /\ Len(rows) >= 1
               /\ 1 <= leftovers /\ leftovers <= batchSize
        /\ \A k \in DOMAIN log :
               /\ (log[k].op = "prepare" /\ k > 1) =>
                      log[k].count >= 1 /\ log[k].values # <<>>
               /\ (log[k].op = "exec" /\ log[k].stmt # 1) => log[k].args # <<>>

\* a call with regular batches whose final batch, of a single row, was
\* prepared and executed
WitnessFinalBatchNotEmpty ==
    /\ ReturnedOk
    /\ batches >= 2
    /\ batches > (Len(Casts) * Len(rows)) \div maxBindVars
    /\ leftovers = 1
    /\ Len(Execs[Len(Execs)].args) = Len(Casts)

\* ------------------------------------------------------------------ C17
\* C17: the result of an Exec call depends on that call's batches alone:
\* a second call on the same Insert, whether the first succeeded or failed
\* part-way, returns the rows-affected of the batches executed in the second
\* call and not what the first call accumulated in the Insert's result.
SecondCallCountsOwnBatches ==
    (Returned /\ calls >= 2) => retResult = SumAffected(OkExecs)

=============================================================================
